---------------------------- MODULE Spec2Model ----------------------------
(***************************************************************************)
(* A model of OFAC-Wizard's src/main.py: the name normaliser, the name     *)
(* assembler, the field extractors, the whole-word matcher, search_sdn,    *)
(* and the Flask handlers /search_concise, /search_full and /reload that   *)
(* share the global ofac_xml_data.                                         *)
(*                                                                         *)
(* Text is a sequence of one-character strings.  An optional XML child     *)
(* element is a sequence of length 0 (no such child: find returns None) or *)
(* 1 (the child; its value is the element's text, <<>> when ElementTree    *)
(* gives text None).                                                       *)
(***************************************************************************)
EXTENDS Integers, Sequences, FiniteSets, TLC

VARIABLES
    \* ---- the server (specification Spec) ----
    main_pc,        \* position of the __main__ block
    ofac_xml_data,  \* the global dataset
    search,         \* the in-flight /search_full or /search_concise request
    reload,         \* the in-flight /reload request
    observed,       \* values the global held while the current search ran
    nreq,           \* requests started so far
    \* ---- one call of search_sdn (specification SpecSearch) ----
    s_xml, s_query, s_pc, s_i, s_results,
    \* ---- one evaluation of the matcher (specification SpecMatch) ----
    m_query, m_cand, m_pc, m_nq, m_nc, m_hit

server_vars == <<main_pc, ofac_xml_data, search, reload, observed, nreq>>
search_vars == <<s_xml, s_query, s_pc, s_i, s_results>>
match_vars  == <<m_query, m_cand, m_pc, m_nq, m_nc, m_hit>>
vars == <<server_vars, search_vars, match_vars>>

---------------------------------------------------------------------------
(* Bounds of the model.                                                    *)

\* longest dataset (number of sdnEntry elements) drawn for search_sdn
MaxEntries == 2
\* longest raw query drawn for the matcher
MaxQueryLen == 2
\* longest raw candidate name drawn for the matcher
MaxCandLen == 3
\* requests the server handles in one behaviour
MaxRequests == 3
\* longest raw text drawn for normalize_name
MaxTextLen == 4
\* longest text of a firstName or lastName element drawn for the extractors
MaxFieldLen == 2
\* longest addressList drawn for the extractors
MaxAddresses == 2

---------------------------------------------------------------------------
(* Characters.                                                             *)

\* string.punctuation (without the grave accent, which no TLA+ string holds)
Punctuation ==
    {"!", "\"", "#", "$", "%", "&", "'", "(", ")", "*", "+", ",", "-", ".",
     "/", ":", ";", "<", "=", ">", "?", "@", "[", "\\", "]", "^", "_",
     "{", "|", "}", "~"}

\* what str.strip() removes and the regex class \s matches
Whitespace == {" ", "\t", "\n", "\r"}

UpperCase ==
    {"A", "B", "C", "D", "E", "F", "G", "H", "I", "J", "K", "L", "M",
     "N", "O", "P", "Q", "R", "S", "T", "U", "V", "W", "X", "Y", "Z"}

LowerCase ==
    {"a", "b", "c", "d", "e", "f", "g", "h", "i", "j", "k", "l", "m",
     "n", "o", "p", "q", "r", "s", "t", "u", "v", "w", "x", "y", "z"}

Digits == {"0", "1", "2", "3", "4", "5", "6", "7", "8", "9"}

\* the regex class \w: what \b tells apart from everything else
IsWordChar(c) == c \in UpperCase \cup LowerCase \cup Digits \cup {"_"}

\* str.lower() on one character
LowerChar(c) ==
    CASE c = "A" -> "a" [] c = "B" -> "b" [] c = "C" -> "c" [] c = "D" -> "d"
      [] c = "E" -> "e" [] c = "F" -> "f" [] c = "G" -> "g" [] c = "H" -> "h"
      [] c = "I" -> "i" [] c = "J" -> "j" [] c = "K" -> "k" [] c = "L" -> "l"
      [] c = "M" -> "m" [] c = "N" -> "n" [] c = "O" -> "o" [] c = "P" -> "p"
      [] c = "Q" -> "q" [] c = "R" -> "r" [] c = "S" -> "s" [] c = "T" -> "t"
      [] c = "U" -> "u" [] c = "V" -> "v" [] c = "W" -> "w" [] c = "X" -> "x"
      [] c = "Y" -> "y" [] c = "Z" -> "z" [] OTHER -> c

---------------------------------------------------------------------------
(* Text helpers: the str methods and re calls main.py uses.                *)

\* mutant of Translate: punctuation is removed instead of replaced
TranslateDeletes(s) == SelectSeq(s, LAMBDA c : c \notin Punctuation)

\* text.translate(translator): every punctuation character becomes a space
Translate(s) == [i \in 1..Len(s) |-> IF s[i] \in Punctuation THEN " " ELSE s[i]]

\* str.strip()
Strip(s) ==
    LET keep == {i \in 1..Len(s) : s[i] \notin Whitespace}
    IN  IF keep = {} THEN <<>>
        ELSE LET lo == CHOOSE i \in keep : \A j \in keep : i <= j
                 hi == CHOOSE i \in keep : \A j \in keep : j <= i
             IN  SubSeq(s, lo, hi)

\* str.lower()
Lower(s) == [i \in 1..Len(s) |-> LowerChar(s[i])]

\* re.sub(r'\s+', ' ', s): every maximal run of whitespace becomes one space
RECURSIVE CollapseWhitespace(_)
CollapseWhitespace(s) ==
    IF s = <<>> THEN <<>>
    ELSE IF s[1] \in Whitespace
         THEN IF Len(s) > 1 /\ s[2] \in Whitespace
              THEN CollapseWhitespace(Tail(s))
              ELSE <<" ">> \o CollapseWhitespace(Tail(s))
         ELSE <<s[1]>> \o CollapseWhitespace(Tail(s))

\* sep.join(parts)
RECURSIVE Join(_, _)
Join(parts, sep) ==
    IF parts = <<>> THEN <<>>
    ELSE IF Len(parts) = 1 THEN parts[1]
    ELSE parts[1] \o sep \o Join(Tail(parts), sep)

\* mutant of normalize_name: the text is stripped before punctuation is
\* replaced, not after
normalize_name_StripsFirst(text) ==
    IF text = <<>> THEN <<>>
    ELSE CollapseWhitespace(Lower(Translate(Strip(text))))

normalize_name(text) ==
    IF text = <<>> THEN <<>>
    ELSE CollapseWhitespace(Lower(Strip(Translate(text))))

---------------------------------------------------------------------------
(* Elements of the parsed document.                                        *)

\* elem is not None and elem.text
HasText(child) == Len(child) > 0 /\ child[1] # <<>>

\* elem.text.strip() if elem is not None and elem.text else ""
TextOrEmpty(child) == IF HasText(child) THEN Strip(child[1]) ELSE <<>>

\* mutant of get_official_name: the joined name is returned unstripped
get_official_name_Unstripped(entry) ==
    LET last_name  == TextOrEmpty(entry.lastName)
        first_name == TextOrEmpty(entry.firstName)
    IN  IF first_name # <<>>
        THEN first_name \o <<" ">> \o last_name
        ELSE last_name

get_official_name(entry) ==
    LET last_name  == TextOrEmpty(entry.lastName)
        first_name == TextOrEmpty(entry.firstName)
    IN  IF first_name # <<>>
        THEN Strip(first_name \o <<" ">> \o last_name)
        ELSE last_name

\* the body of the loop over <aka>: the name of one alias
AkaName(aka) ==
    LET a1 == IF HasText(aka.firstName)
              THEN Strip(aka.firstName[1]) \o <<" ">> ELSE <<>>
        a2 == IF HasText(aka.lastName)
              THEN a1 \o Strip(aka.lastName[1]) ELSE a1
    IN  Strip(a2)

\* the non-empty names among seq, in order
RECURSIVE NonEmpty(_)
NonEmpty(seq) ==
    IF seq = <<>> THEN <<>>
    ELSE IF seq[1] = <<>> THEN NonEmpty(Tail(seq))
    ELSE <<seq[1]>> \o NonEmpty(Tail(seq))

collect_name_variants(entry) ==
    LET official == get_official_name(entry)
        first    == IF official # <<>> THEN <<official>> ELSE <<>>
        akas     == IF Len(entry.akaList) > 0
                    THEN [k \in 1..Len(entry.akaList[1]) |->
                             AkaName(entry.akaList[1][k])]
                    ELSE <<>>
    IN  first \o NonEmpty(akas)

AddressTags ==
    <<"address1", "address2", "city", "stateOrProvince", "postalCode", "country">>

\* the parts list of one <address>
RECURSIVE AddressParts(_, _)
AddressParts(addr, k) ==
    IF k > Len(AddressTags) THEN <<>>
    ELSE (IF HasText(addr[AddressTags[k]])
          THEN <<Strip(addr[AddressTags[k]][1])>> ELSE <<>>)
         \o AddressParts(addr, k + 1)

\* the addresses list: one joined string per <address> that has parts
RECURSIVE AddressStrings(_)
AddressStrings(addrs) ==
    IF addrs = <<>> THEN <<>>
    ELSE LET parts == AddressParts(addrs[1], 1)
         IN  (IF parts # <<>> THEN <<Join(parts, <<";", " ">>)>> ELSE <<>>)
             \o AddressStrings(Tail(addrs))

extract_address(entry) ==
    IF Len(entry.addressList) = 0 THEN <<>>
    ELSE Join(AddressStrings(entry.addressList[1]), <<" ", "|", " ">>)

\* the programs list: the stripped text of every <program> that has text
RECURSIVE ProgramStrings(_)
ProgramStrings(progs) ==
    IF progs = <<>> THEN <<>>
    ELSE (IF progs[1] # <<>> THEN <<Strip(progs[1])>> ELSE <<>>)
         \o ProgramStrings(Tail(progs))

extract_programs(entry) ==
    IF Len(entry.programList) = 0 THEN <<>>
    ELSE Join(ProgramStrings(entry.programList[1]), <<";", " ">>)

extract_type(entry) == TextOrEmpty(entry.sdnType)

---------------------------------------------------------------------------
(* The matcher: re.compile(r'\b' + re.escape(term_norm) + r'\b').search.   *)

\* re.escape(term): every character of the term is a literal of the pattern
re_escape(term) == [i \in 1..Len(term) |-> [kind |-> "lit", ch |-> term[i]]]

WordBoundary == [kind |-> "b", ch |-> ""]

\* mutant of CompilePattern: the pattern without its two \b
CompilePatternUnbounded(term_norm) == re_escape(term_norm)

\* pattern = re.compile(r'\b' + re.escape(term_norm) + r'\b')
CompilePattern(term_norm) ==
    <<WordBoundary>> \o re_escape(term_norm) \o <<WordBoundary>>

\* \b at offset p of s (between s[p] and s[p+1]): exactly one side is a \w
AtWordBoundary(s, p) ==
    LET before == p >= 1 /\ IsWordChar(s[p])
        after  == p < Len(s) /\ IsWordChar(s[p + 1])
    IN  before # after

\* the pattern's atoms k.. match s from offset p
RECURSIVE MatchHere(_, _, _, _)
MatchHere(pattern, k, s, p) ==
    IF k > Len(pattern) THEN TRUE
    ELSE IF pattern[k].kind = "b"
         THEN AtWordBoundary(s, p) /\ MatchHere(pattern, k + 1, s, p)
         ELSE /\ p < Len(s)
              /\ s[p + 1] = pattern[k].ch
              /\ MatchHere(pattern, k + 1, s, p + 1)

\* pattern.search(s) is not None
PatternSearch(pattern, s) == \E p \in 0..Len(s) : MatchHere(pattern, 1, s, p)

---------------------------------------------------------------------------
(* search_sdn.                                                             *)

\* values of xml_data: None, bytes that do not parse, bytes of a document
\* whose root is namespace-qualified (ns) or not, with its sdnEntry children
NoData    == [kind |-> "none", ns |-> FALSE, entries |-> <<>>]
Malformed == [kind |-> "malformed", ns |-> FALSE, entries |-> <<>>]
Document(ns, entries) == [kind |-> "xml", ns |-> ns, entries |-> entries]

\* ET.fromstring(xml_data) raises (TypeError for None, ParseError for bytes
\* that are not XML)
ParseFails(xml_data) == xml_data.kind # "xml"

\* entry.find("sdn:...", ns) raises SyntaxError("prefix 'sdn' not found in
\* prefix map") when ns is the empty map of the un-namespaced branch
PrefixMissing(xml_data) == ~xml_data.ns

\* the row dictionary built for a matching entry
Row(entry) ==
    [Name     |-> get_official_name(entry),
     Address  |-> extract_address(entry),
     Type     |-> extract_type(entry),
     Programs |-> extract_programs(entry),
     List     |-> "SDN",
     Score    |-> "100"]

\* any(pattern.search(normalize_name(v)) for v in variants)
EntryMatches(entry, pattern) ==
    LET variants == collect_name_variants(entry)
    IN  \E k \in 1..Len(variants) :
            PatternSearch(pattern, normalize_name(variants[k]))

InResults(row, results) == \E k \in 1..Len(results) : results[k] = row

\* mutant of SearchEntry: the row is appended without "row not in results"
SearchEntryNoDedup(results, entry, pattern) ==
    IF EntryMatches(entry, pattern) /\ get_official_name(entry) # <<>>
    THEN Append(results, Row(entry))
    ELSE results

\* mutant of SearchEntry: the row is put in front of the earlier rows
SearchEntryPrepend(results, entry, pattern) ==
    IF EntryMatches(entry, pattern)
    THEN LET row == Row(entry)
         IN  IF row.Name # <<>> /\ ~InResults(row, results)
             THEN <<row>> \o results
             ELSE results
    ELSE results

\* one iteration of "for entry in root.findall(entry_path, ns)"
SearchEntry(results, entry, pattern) ==
    IF EntryMatches(entry, pattern)
    THEN LET official == get_official_name(entry)
             row      == Row(entry)
         IN  IF official # <<>> /\ ~InResults(row, results)
             THEN Append(results, row)
             ELSE results
    ELSE results

\* the loop from entry i on
RECURSIVE SearchLoop(_, _, _, _)
SearchLoop(entries, pattern, i, results) ==
    IF i > Len(entries) THEN results
    ELSE SearchLoop(entries, pattern, i + 1,
                    SearchEntry(results, entries[i], pattern))

\* the outcome of a call: the returned list, or the exception that leaves it
Returned(rows) == [raised |-> FALSE, rows |-> rows]
Raised == [raised |-> TRUE, rows |-> <<>>]

search_sdn(xml_data, name_search) ==
    IF ParseFails(xml_data) THEN Returned(<<>>)
    ELSE IF Len(xml_data.entries) > 0 /\ PrefixMissing(xml_data) THEN Raised
    ELSE Returned(SearchLoop(xml_data.entries,
                             CompilePattern(normalize_name(name_search)),
                             1, <<>>))

---------------------------------------------------------------------------
(* Inputs: entries in the shape the code reads them, and query strings.    *)

NoChild == <<>>
Child(text) == <<text>>

Aka(first, last) == [firstName |-> first, lastName |-> last]

Address(address1, city, country) ==
    [address1 |-> address1, address2 |-> NoChild, city |-> city,
     stateOrProvince |-> NoChild, postalCode |-> NoChild, country |-> country]

Entry(first, last, akaList, addressList, programList, sdnType) ==
    [firstName |-> first, lastName |-> last, akaList |-> akaList,
     addressList |-> addressList, programList |-> programList,
     sdnType |-> sdnType]

John     == <<"J", "o", "h", "n">>
Johnny   == <<"J", "o", "h", "n", "n", "y">>
Smith    == <<"S", "m", "i", "t", "h">>
Alibaba  == <<"A", "l", "i", "b", "a", "b", "a">>
Ali      == <<"A", "l", "i">>
Baba     == <<"B", "a", "b", "a">>
Doe      == <<"D", "o", "e">>
AcmeCorp == <<"A", "c", "m", "e", " ", "C", "o", "r", "p", ".">>
Oslo     == <<"O", "s", "l", "o">>
Norway   == <<"N", "O">>
Individual == <<"I", "n", "d", "i", "v", "i", "d", "u", "a", "l">>
Entity   == <<"E", "n", "t", "i", "t", "y">>
SDGT     == <<"S", "D", "G", "T">>
IRAN     == <<"I", "R", "A", "N">>

\* John Smith, alias Johnny Smith
E_JohnSmith ==
    Entry(Child(John), Child(Smith),
          Child(<<Aka(Child(Johnny), Child(Smith))>>),
          Child(<<Address(NoChild, Child(Oslo), Child(Norway))>>),
          Child(<<SDGT>>), Child(Individual))

\* another source entry with the same display fields as E_JohnSmith
E_JohnSmithDup ==
    Entry(Child(John), Child(<<" ">> \o Smith),
          Child(<<Aka(Child(<<"J", ".">>), Child(Smith)), Aka(NoChild, Child(John))>>),
          Child(<<Address(NoChild, Child(Oslo), Child(Norway))>>),
          Child(<<SDGT>>), Child(Individual))

\* Alibaba: a last name only, no alias list
E_Alibaba ==
    Entry(NoChild, Child(Alibaba), NoChild, NoChild, Child(<<IRAN>>), Child(Entity))

\* Ali Baba, with text that needs stripping
E_AliBaba ==
    Entry(Child(<<" ">> \o Ali \o <<" ">>), Child(Baba), Child(<<>>), NoChild,
          NoChild, Child(Individual))

\* no usable firstName or lastName; one alias, John
E_Nameless ==
    Entry(Child(<<>>), Child(<<" ", " ">>),
          Child(<<Aka(NoChild, Child(John))>>),
          NoChild, Child(<<SDGT>>), Child(Individual))

\* Acme Corp., aliases John Doe and one without text
E_Acme ==
    Entry(NoChild, Child(AcmeCorp),
          Child(<<Aka(NoChild, NoChild), Aka(Child(John), Child(Doe))>>),
          NoChild, Child(<<IRAN, <<>>, SDGT>>), Child(Entity))

\* a firstName and no lastName
E_OnlyFirst ==
    Entry(Child(John), NoChild, NoChild, NoChild, NoChild, NoChild)

EntryPool ==
    {E_JohnSmith, E_JohnSmithDup, E_Alibaba, E_AliBaba, E_Nameless, E_Acme,
     E_OnlyFirst}

SeqsUpTo(S, n) == UNION {[1..k -> S] : k \in 0..n}

\* the xml_data values search_sdn is called with
Datasets ==
    {NoData, Malformed}
    \cup {Document(ns, es) : ns \in BOOLEAN, es \in SeqsUpTo(EntryPool, MaxEntries)}

\* the dataset of the end-to-end example
ExampleDataset == Document(TRUE, <<E_JohnSmith, E_Alibaba>>)

\* queries made of regex metacharacters
MetaQueries ==
    {<<".">>, <<".", "*">>, <<"a", "|", "b">>, <<"(">>, <<"J", "o", ".", "n">>}

QueryPool ==
    MetaQueries
    \cup {<<>>, <<" ">>, <<"-", "-", "-">>,
          <<"a", "l", "i">>, John, <<"S", "M", "I", "T", "H">>,
          <<" ", "j", "o", "h", "n", " ", " ", "d", "o", "e">>,
          <<"a", "c", "m", "e">>}

---------------------------------------------------------------------------
(* One call search_sdn(s_xml, s_query), an entry of the loop per step.     *)

SearchInit ==
    /\ s_xml \in Datasets
    /\ s_query \in QueryPool
    /\ s_pc = "call"
    /\ s_i = 0
    /\ s_results = <<>>

\* root = ET.fromstring(xml_data), "except Exception: return []"
SParse ==
    /\ s_pc = "call"
    /\ IF ParseFails(s_xml)
       THEN s_pc' = "returned" /\ s_i' = s_i
       ELSE s_pc' = "loop" /\ s_i' = 1
    /\ UNCHANGED <<s_xml, s_query, s_results>>

\* one iteration of the loop over root.findall(entry_path, ns)
SLoop ==
    /\ s_pc = "loop"
    /\ s_i <= Len(s_xml.entries)
    /\ IF PrefixMissing(s_xml)
       THEN s_pc' = "raised" /\ UNCHANGED <<s_i, s_results>>
       ELSE /\ s_results' =
                   SearchEntry(s_results, s_xml.entries[s_i],
                               CompilePattern(normalize_name(s_query)))
            /\ s_i' = s_i + 1
            /\ s_pc' = s_pc
    /\ UNCHANGED <<s_xml, s_query>>

\* return results
SReturn ==
    /\ s_pc = "loop"
    /\ s_i > Len(s_xml.entries)
    /\ s_pc' = "returned"
    /\ UNCHANGED <<s_xml, s_query, s_i, s_results>>

ServerIdle ==
    /\ main_pc = "off"
    /\ ofac_xml_data = NoData
    /\ search = [pc |-> "off"]
    /\ reload = [pc |-> "off"]
    /\ observed = {}
    /\ nreq = 0

MatchIdle ==
    /\ m_query = <<>>
    /\ m_cand = <<>>
    /\ m_pc = "off"
    /\ m_nq = <<>>
    /\ m_nc = <<>>
    /\ m_hit = FALSE

InitSearch == SearchInit /\ ServerIdle /\ MatchIdle

NextSearch ==
    \/ SParse /\ UNCHANGED <<server_vars, match_vars>>
    \/ SLoop /\ UNCHANGED <<server_vars, match_vars>>
    \/ SReturn /\ UNCHANGED <<server_vars, match_vars>>

SpecSearch == InitSearch /\ [][NextSearch]_vars

---------------------------------------------------------------------------
(* Claims about search_sdn, checked under SpecSearch.                      *)

\* the pattern of the call in progress
s_pattern == CompilePattern(normalize_name(s_query))

\* the whole-word rule as the specification words it: a non-empty q occurs
\* in c with a string edge or a non-word character on each side
WholeWordOccurs(q, c) ==
    /\ q # <<>>
    /\ \E p \in 0..(Len(c) - Len(q)) :
          /\ SubSeq(c, p + 1, p + Len(q)) = q
          /\ (p = 0 \/ ~IsWordChar(c[p]))
          /\ (p + Len(q) = Len(c) \/ ~IsWordChar(c[p + Len(q) + 1]))

\* C1: a query whose normalized form is empty (empty, whitespace only or
\* punctuation only) makes search_sdn return the empty list, whatever the
\* dataset.
C1_EmptyQueryMatchesNothing ==
    (s_pc = "returned" /\ normalize_name(s_query) = <<>>) => s_results = <<>>

\* C2: for a query made of regex metacharacters, every returned record is
\* the record of an entry one of whose name variants contains the query's
\* literal normalized text as a whole word.
C2_MetacharactersAreLiteral ==
    (s_pc = "returned" /\ s_query \in MetaQueries) =>
        \A k \in 1..Len(s_results) :
            \E j \in 1..Len(s_xml.entries) :
                /\ Row(s_xml.entries[j]) = s_results[k]
                /\ LET variants == collect_name_variants(s_xml.entries[j])
                   IN  \E v \in 1..Len(variants) :
                           WholeWordOccurs(normalize_name(s_query),
                                           normalize_name(variants[v]))

\* C4 as claimed: on the example dataset the query "ali" returns the
\* Alibaba record and the query "John" returns exactly the John Smith record.
C4_EndToEndAsClaimed ==
    (s_xml = ExampleDataset /\ s_pc = "returned") =>
        /\ s_query = <<"a", "l", "i">> => InResults(Row(E_Alibaba), s_results)
        /\ s_query = John => s_results = <<Row(E_JohnSmith)>>

\* C4 (amended): on the example dataset search_sdn returns, the query "ali"
\* returns no record at all ("alibaba" holds "ali" only as part of a word)
\* and the query "John" returns exactly one record, whose Name is
\* "John Smith".
C4_EndToEnd ==
    s_xml = ExampleDataset =>
        /\ s_pc # "raised"
        /\ s_pc = "returned" =>
              /\ s_query = <<"a", "l", "i">> => s_results = <<>>
              /\ s_query = John =>
                    /\ s_results = <<Row(E_JohnSmith)>>
                    /\ s_results[1].Name = John \o <<" ">> \o Smith

C4_Witness ==
    /\ s_xml = ExampleDataset
    /\ s_query = <<"a", "l", "i">>
    /\ s_pc = "returned"
    /\ ~InResults(Row(E_Alibaba), s_results)

\* the entries of the dataset that yield the record row for the query
Yielders(row) ==
    {j \in 1..Len(s_xml.entries) :
        /\ EntryMatches(s_xml.entries[j], s_pattern)
        /\ get_official_name(s_xml.entries[j]) # <<>>
        /\ Row(s_xml.entries[j]) = row}

\* C5: the returned list never holds two equal records, and every matching
\* entry with an official name has exactly one record in it, however many
\* of its variants match and however many entries share its record.
C5_Deduplicated ==
    /\ \A a, b \in 1..Len(s_results) : a # b => s_results[a] # s_results[b]
    /\ s_pc = "returned" =>
          \A j \in 1..Len(s_xml.entries) :
              j \in Yielders(Row(s_xml.entries[j])) =>
                  Cardinality({k \in 1..Len(s_results) :
                                  s_results[k] = Row(s_xml.entries[j])}) = 1

C5_Witness ==
    /\ s_pc = "returned"
    /\ s_xml = Document(TRUE, <<E_JohnSmith, E_JohnSmithDup>>)
    /\ s_query = John
    /\ Len(s_results) = 1

FirstYielder(row) ==
    CHOOSE j \in Yielders(row) : \A i \in Yielders(row) : j <= i

\* C6: the returned records stand in the order of the first matching entry
\* that yields each of them.
C6_DatasetOrder ==
    s_pc = "returned" =>
        /\ \A k \in 1..Len(s_results) : Yielders(s_results[k]) # {}
        /\ \A a, b \in 1..Len(s_results) :
              a < b => FirstYielder(s_results[a]) < FirstYielder(s_results[b])

C6_Witness ==
    /\ s_pc = "returned"
    /\ Len(s_results) >= 2
    /\ s_results[1] = Row(s_xml.entries[1])

\* the entries that have an official name, in order
RECURSIVE Named(_)
Named(entries) ==
    IF entries = <<>> THEN <<>>
    ELSE IF get_official_name(entries[1]) = <<>> THEN Named(Tail(entries))
    ELSE <<entries[1]>> \o Named(Tail(entries))

\* C7: an entry without an official name never shows in a result, raises no
\* error, and leaves the records of the other entries as they would be
\* without it.
C7_NamelessEntriesSkipped ==
    (s_xml.kind = "xml" /\ Named(s_xml.entries) # s_xml.entries) =>
        /\ s_pc # "raised"
        /\ s_pc = "returned" =>
              /\ \A k \in 1..Len(s_results) : s_results[k].Name # <<>>
              /\ s_results = SearchLoop(Named(s_xml.entries), s_pattern, 1, <<>>)

\* C13: search_sdn never raises, whatever the query and the dataset, and
\* returns the empty list when the dataset does not parse.
C13_SearchIsTotal ==
    /\ s_pc # "raised"
    /\ (s_pc = "returned" /\ ParseFails(s_xml)) => s_results = <<>>

---------------------------------------------------------------------------
(* search_sdn on one entry whose name fields, or whose address list, are   *)
(* drawn from every combination of absent, empty, blank and padded texts.  *)

\* element texts: <<>> is the text None of an empty element
FieldTexts == SeqsUpTo({"a", " "}, MaxFieldLen)

OptionalNames == {NoChild} \cup {Child(t) : t \in FieldTexts}

AkaLists == {NoChild, Child(<<Aka(NoChild, Child(<<"a">>))>>)}

NameEntries ==
    {Entry(first, last, akas, NoChild, NoChild, NoChild) :
        first \in OptionalNames, last \in OptionalNames, akas \in AkaLists}

OptionalParts == {NoChild, Child(<<" ">>), Child(<<"a">>)}

\* an address with every part present
FullAddress ==
    [address1 |-> Child(<<"1">>), address2 |-> Child(<<"2">>),
     city |-> Child(<<"c">>), stateOrProvince |-> Child(<<"s">>),
     postalCode |-> Child(<<"p">>), country |-> Child(<<"n">>)]

AddressPool ==
    {Address(address1, city, country) :
        address1 \in OptionalParts,
        city \in OptionalParts \cup {Child(<<>>), Child(<<" ", "b">>)},
        country \in OptionalParts}
    \cup {FullAddress}

AddressEntries ==
    {Entry(NoChild, Child(<<"a">>), NoChild, addressList, NoChild, NoChild) :
        addressList \in {NoChild}
            \cup {Child(as) : as \in SeqsUpTo(AddressPool, MaxAddresses)}}

ExtractQueries == {<<"a">>, <<"a", "a">>}

ExtractInit ==
    /\ s_xml \in {Document(TRUE, <<e>>) : e \in NameEntries \cup AddressEntries}
    /\ s_query \in ExtractQueries
    /\ s_pc = "call"
    /\ s_i = 0
    /\ s_results = <<>>

InitExtract == ExtractInit /\ ServerIdle /\ MatchIdle

SpecExtract == InitExtract /\ [][NextSearch]_vars

\* the stripped text of an optional element, empty when there is none
Trimmed(child) ==
    IF Len(child) = 0 THEN <<>> ELSE Strip(child[1])

\* C14: the official name is "first last" when the trimmed firstName is not
\* empty, the trimmed lastName alone otherwise, empty when both are absent;
\* it never starts or ends with whitespace; and the Name of every returned
\* record is the official name of a matching entry, also when only an
\* alias matched.
C14_OfficialName ==
    /\ \A j \in 1..Len(s_xml.entries) :
          LET first == Trimmed(s_xml.entries[j].firstName)
              last  == Trimmed(s_xml.entries[j].lastName)
              name  == get_official_name(s_xml.entries[j])
          IN  /\ name = IF first # <<>>
                        THEN IF last # <<>> THEN first \o <<" ">> \o last
                             ELSE first
                        ELSE last
              /\ name # <<>> =>
                    name[1] \notin Whitespace /\ name[Len(name)] \notin Whitespace
    /\ \A k \in 1..Len(s_results) :
          \E j \in 1..Len(s_xml.entries) :
              /\ EntryMatches(s_xml.entries[j], s_pattern)
              /\ s_results[k].Name = get_official_name(s_xml.entries[j])

C14_Witness ==
    /\ s_pc = "returned"
    /\ Len(s_results) = 1
    /\ HasText(s_xml.entries[1].firstName)
    /\ s_xml.entries[1].lastName = NoChild
    /\ s_results[1].Name = <<"a", "a">>
    /\ ~PatternSearch(s_pattern, normalize_name(s_results[1].Name))

\* the parts of an address that the claim lets through: present, and not
\* empty once stripped
RECURSIVE NonEmptyParts(_, _)
NonEmptyParts(addr, k) ==
    IF k > Len(AddressTags) THEN <<>>
    ELSE (IF Trimmed(addr[AddressTags[k]]) # <<>>
          THEN <<Trimmed(addr[AddressTags[k]])>> ELSE <<>>)
         \o NonEmptyParts(addr, k + 1)

RECURSIVE NonEmptyAddresses(_)
NonEmptyAddresses(addrs) ==
    IF addrs = <<>> THEN <<>>
    ELSE (IF NonEmptyParts(addrs[1], 1) # <<>>
          THEN <<Join(NonEmptyParts(addrs[1], 1), <<";", " ">>)>> ELSE <<>>)
         \o NonEmptyAddresses(Tail(addrs))

\* C15: the address is the " | "-joined list, in source order, of the
\* "; "-joined present and non-empty parts of each address, in tag order;
\* a blank part or an address without parts contributes nothing; an absent
\* address list gives the empty string.
C15_AddressExtraction ==
    s_pc = "returned" =>
        \A k \in 1..Len(s_results) :
            \E j \in 1..Len(s_xml.entries) :
                /\ s_results[k].Name = get_official_name(s_xml.entries[j])
                /\ s_results[k].Address =
                       IF Len(s_xml.entries[j].addressList) = 0 THEN <<>>
                       ELSE Join(NonEmptyAddresses(s_xml.entries[j].addressList[1]),
                                 <<" ", "|", " ">>)

---------------------------------------------------------------------------
(* One evaluation of the matcher as search_sdn applies it: both sides are  *)
(* normalized, then the compiled pattern is searched in the candidate.     *)

\* characters the raw strings are drawn from: a lower-case letter, an
\* upper-case letter, a space, a punctuation mark, and a character that is
\* neither punctuation nor whitespace nor a word character
Alphabet == {"a", "B", " ", "-", "€"}

MatchInit ==
    /\ m_query \in SeqsUpTo(Alphabet, MaxQueryLen)
    /\ m_cand \in SeqsUpTo(Alphabet, MaxCandLen)
    /\ m_pc = "input"
    /\ m_nq = <<>>
    /\ m_nc = <<>>
    /\ m_hit = FALSE

\* term_norm = normalize_name(name_search); normalize_name(v)
MNormalize ==
    /\ m_pc = "input"
    /\ m_nq' = normalize_name(m_query)
    /\ m_nc' = normalize_name(m_cand)
    /\ m_pc' = "normalized"
    /\ UNCHANGED <<m_query, m_cand, m_hit>>

\* pattern.search(normalize_name(v))
MMatch ==
    /\ m_pc = "normalized"
    /\ m_hit' = PatternSearch(CompilePattern(m_nq), m_nc)
    /\ m_pc' = "matched"
    /\ UNCHANGED <<m_query, m_cand, m_nq, m_nc>>

SearchIdle ==
    /\ s_xml = NoData
    /\ s_query = <<>>
    /\ s_pc = "off"
    /\ s_i = 0
    /\ s_results = <<>>

InitMatch == MatchInit /\ ServerIdle /\ SearchIdle

NextMatch ==
    \/ MNormalize /\ UNCHANGED <<server_vars, search_vars>>
    \/ MMatch /\ UNCHANGED <<server_vars, search_vars>>

SpecMatch == InitMatch /\ [][NextMatch]_vars

\* C3: for a non-empty normalized query q and a normalized candidate c the
\* matcher succeeds iff q occurs in c with a string edge or a non-word
\* character right before and right after it; "ali" is not found in
\* "alibaba" and is found in "ali baba".
C3_WholeWordMatch ==
    /\ (m_pc = "matched" /\ m_nq # <<>>) =>
           (m_hit <=> WholeWordOccurs(m_nq, m_nc))
    /\ ~PatternSearch(CompilePattern(<<"a", "l", "i">>),
                      <<"a", "l", "i", "b", "a", "b", "a">>)
    /\ PatternSearch(CompilePattern(<<"a", "l", "i">>),
                     <<"a", "l", "i", " ", "b", "a", "b", "a">>)

---------------------------------------------------------------------------
(* normalize_name applied to one text.                                     *)

\* characters the texts are drawn from: letters of both cases, two kinds
\* of whitespace, two punctuation marks (one of them a \w character), and a
\* character that is none of these
NormAlphabet == {"a", "B", " ", "\t", "-", "_", "€"}

OBrienJr == <<"O", "'", "B", "r", "i", "e", "n", ",", " ", "J", "r", ".">>
ObrienJrPlain == <<"o", "b", "r", "i", "e", "n", " ", "j", "r">>
OBrienJrSpaced == <<"o", " ", "b", "r", "i", "e", "n", " ", "j", "r">>

NormInputs ==
    SeqsUpTo(NormAlphabet, MaxTextLen)
    \cup {OBrienJr, ObrienJrPlain, OBrienJrSpaced}

NormalizeInit ==
    /\ m_query \in NormInputs
    /\ m_cand = <<>>
    /\ m_pc = "input"
    /\ m_nq = <<>>
    /\ m_nc = <<>>
    /\ m_hit = FALSE

InitNormalize == NormalizeInit /\ ServerIdle /\ SearchIdle

NextNormalize == MNormalize /\ UNCHANGED <<server_vars, search_vars>>

SpecNormalize == InitNormalize /\ [][NextNormalize]_vars

\* C11: normalizing a normalized text gives the same text back, and the
\* empty text normalizes to the empty text.
C11_NormalizeIdempotent ==
    m_pc = "normalized" =>
        /\ normalize_name(m_nq) = m_nq
        /\ m_query = <<>> => m_nq = <<>>

C11_Witness ==
    /\ m_pc = "normalized"
    /\ m_nq # <<>>
    /\ m_nq # m_query
    /\ Len(m_nq) < Len(m_query)

\* C12 as claimed: "O'Brien, Jr." and "obrien jr" normalize to the same
\* text.
C12_OBrienAsClaimed ==
    (m_pc = "normalized" /\ m_query = OBrienJr) =>
        m_nq = normalize_name(ObrienJrPlain)

\* C12 (amended): "O'Brien, Jr." normalizes to "o brien jr", the text
\* "o brien jr" normalizes to itself, so the two are equal after
\* normalization: the apostrophe becomes a space, it is not removed.
C12_OBrien ==
    /\ (m_pc = "normalized" /\ m_query = OBrienJr) => m_nq = OBrienJrSpaced
    /\ (m_pc = "normalized" /\ m_query = OBrienJrSpaced) => m_nq = OBrienJrSpaced

C12_Witness ==
    /\ m_pc = "normalized"
    /\ m_query = OBrienJr
    /\ m_nq # normalize_name(ObrienJrPlain)

---------------------------------------------------------------------------
(* The server: the __main__ block and the three Flask handlers.  app.run   *)
(* serves requests on threads, so a search and a reload interleave; a      *)
(* handler step that touches the global ofac_xml_data is one action.       *)

\* what requests.get(url) can do: answer 200 with some bytes, answer with
\* another status, or raise
DocA == ExampleDataset
DocB == Document(TRUE, <<E_AliBaba, E_Acme>>)
DocPlain == Document(FALSE, <<E_Alibaba>>)
ServerDocs == {DocA, DocB, DocPlain, Malformed}

FetchOutcomes ==
    {[how |-> "ok", content |-> d] : d \in ServerDocs}
    \cup {[how |-> "status", content |-> NoData],
          [how |-> "exception", content |-> NoData]}

\* the value fetch_ofac_data returns: the content, or None
fetch_ofac_data(outcome) ==
    IF outcome.how = "ok" THEN outcome.content ELSE NoData

\* values of the "name" query parameter
NameArgs == {John, <<" ">>, <<"-", "-", "-">>, <<" ", "a", "l", "i">>}

Routes == {"search_concise", "search_full"}

SearchSlotIdle ==
    [pc |-> "idle", route |-> "", name_query |-> <<>>, xml_data |-> NoData,
     i |-> 0, results |-> <<>>, status |-> 0, body |-> <<>>]

ReloadSlotIdle == [pc |-> "idle", how |-> "", new_data |-> NoData, status |-> 0]

\* the payload of the 200 answer: the names, or the records
ResponseBody(route, results) ==
    IF route = "search_concise"
    THEN [k \in 1..Len(results) |-> results[k].Name]
    ELSE results

ServerInit ==
    /\ main_pc = "start"
    /\ ofac_xml_data = NoData
    /\ search = SearchSlotIdle
    /\ reload = ReloadSlotIdle
    /\ observed = {}
    /\ nreq = 0

\* mutant of MainFetch: app.run is reached whatever the fetch returned
MainFetchAlwaysServes ==
    /\ main_pc = "start"
    /\ \E outcome \in FetchOutcomes :
          /\ ofac_xml_data' = fetch_ofac_data(outcome)
          /\ main_pc' = "serving"
    /\ UNCHANGED <<search, reload, observed, nreq>>

\* __main__: fetch, then exit or app.run
MainFetch ==
    /\ main_pc = "start"
    /\ \E outcome \in FetchOutcomes :
          /\ ofac_xml_data' = fetch_ofac_data(outcome)
          /\ main_pc' = IF fetch_ofac_data(outcome) = NoData
                        THEN "exited" ELSE "serving"
    /\ UNCHANGED <<search, reload, observed, nreq>>

\* a search handler starts: the name argument is stripped; an empty one is
\* answered 400
SearchBegin ==
    /\ main_pc = "serving"
    /\ search.pc = "idle"
    /\ nreq < MaxRequests
    /\ \E route \in Routes, arg \in NameArgs :
          LET name_query == Strip(arg)
          IN  search' =
                  IF name_query = <<>>
                  THEN [SearchSlotIdle EXCEPT !.pc = "done", !.route = route,
                                              !.status = 400]
                  ELSE [SearchSlotIdle EXCEPT !.pc = "call", !.route = route,
                                              !.name_query = name_query]
    /\ observed' = {ofac_xml_data}
    /\ nreq' = nreq + 1
    /\ UNCHANGED <<main_pc, ofac_xml_data, reload>>

\* search_sdn(ofac_xml_data, name_query) is entered: the global is read
\* once, as the argument, and parsed
SearchCall ==
    /\ search.pc = "call"
    /\ search' =
           IF ParseFails(ofac_xml_data)
           THEN [search EXCEPT !.pc = "respond", !.xml_data = ofac_xml_data]
           ELSE [search EXCEPT !.pc = "loop", !.xml_data = ofac_xml_data,
                               !.i = 1]
    /\ UNCHANGED <<main_pc, ofac_xml_data, reload, observed, nreq>>

\* mutant of SearchLoopStep: every iteration reads the global again
SearchLoopStepRereads ==
    /\ search.pc = "loop"
    /\ IF ParseFails(ofac_xml_data) \/ search.i > Len(ofac_xml_data.entries)
       THEN search' = [search EXCEPT !.pc = "respond"]
       ELSE IF PrefixMissing(ofac_xml_data)
       THEN search' = [search EXCEPT !.pc = "done", !.status = 500]
       ELSE search' =
               [search EXCEPT
                   !.results =
                       SearchEntry(search.results,
                                   ofac_xml_data.entries[search.i],
                                   CompilePattern(normalize_name(search.name_query))),
                   !.i = search.i + 1]
    /\ UNCHANGED <<main_pc, ofac_xml_data, reload, observed, nreq>>

\* one iteration of search_sdn's loop over the document it was called with;
\* the SyntaxError of an un-namespaced document leaves the handler and is
\* answered 500
SearchLoopStep ==
    /\ search.pc = "loop"
    /\ IF search.i > Len(search.xml_data.entries)
       THEN search' = [search EXCEPT !.pc = "respond"]
       ELSE IF PrefixMissing(search.xml_data)
       THEN search' = [search EXCEPT !.pc = "done", !.status = 500]
       ELSE search' =
               [search EXCEPT
                   !.results =
                       SearchEntry(search.results,
                                   search.xml_data.entries[search.i],
                                   CompilePattern(normalize_name(search.name_query))),
                   !.i = search.i + 1]
    /\ UNCHANGED <<main_pc, ofac_xml_data, reload, observed, nreq>>

\* jsonify({"count": ..., ...})
SearchRespond ==
    /\ search.pc = "respond"
    /\ search' = [search EXCEPT !.pc = "done", !.status = 200,
                                !.body = ResponseBody(search.route, search.results)]
    /\ UNCHANGED <<main_pc, ofac_xml_data, reload, observed, nreq>>

\* the answer is sent; the next search may start
SearchClose ==
    /\ search.pc = "done"
    /\ search' = SearchSlotIdle
    /\ observed' = {}
    /\ UNCHANGED <<main_pc, ofac_xml_data, reload, nreq>>

\* new_data = fetch_ofac_data(OFAC_URL)
ReloadFetch ==
    /\ main_pc = "serving"
    /\ reload.pc = "idle"
    /\ nreq < MaxRequests
    /\ \E outcome \in FetchOutcomes :
          reload' = [pc |-> "fetched", how |-> outcome.how,
                     new_data |-> fetch_ofac_data(outcome), status |-> 0]
    /\ nreq' = nreq + 1
    /\ UNCHANGED <<main_pc, ofac_xml_data, search, observed>>

\* mutant of ReloadRespond: the global is assigned before new_data is tested
ReloadRespondAssignsFirst ==
    /\ reload.pc = "fetched"
    /\ ofac_xml_data' = reload.new_data
    /\ reload' = [reload EXCEPT !.pc = "done",
                     !.status = IF reload.new_data = NoData THEN 500 ELSE 200]
    /\ observed' = IF search.pc \in {"call", "loop", "respond"}
                   THEN observed \cup {reload.new_data} ELSE observed
    /\ UNCHANGED <<main_pc, search, nreq>>

\* "if new_data is None: return ..., 500", else the global is assigned
ReloadRespond ==
    /\ reload.pc = "fetched"
    /\ IF reload.new_data = NoData
       THEN /\ reload' = [reload EXCEPT !.pc = "done", !.status = 500]
            /\ UNCHANGED <<ofac_xml_data, observed>>
       ELSE /\ ofac_xml_data' = reload.new_data
            /\ reload' = [reload EXCEPT !.pc = "done", !.status = 200]
            /\ observed' = IF search.pc \in {"call", "loop", "respond"}
                           THEN observed \cup {reload.new_data} ELSE observed
    /\ UNCHANGED <<main_pc, search, nreq>>

\* the answer is sent; the next reload may start
ReloadClose ==
    /\ reload.pc = "done"
    /\ reload' = ReloadSlotIdle
    /\ UNCHANGED <<main_pc, ofac_xml_data, search, observed, nreq>>

Init == ServerInit /\ SearchIdle /\ MatchIdle

Next ==
    \/ MainFetch /\ UNCHANGED <<search_vars, match_vars>>
    \/ SearchBegin /\ UNCHANGED <<search_vars, match_vars>>
    \/ SearchCall /\ UNCHANGED <<search_vars, match_vars>>
    \/ SearchLoopStep /\ UNCHANGED <<search_vars, match_vars>>
    \/ SearchRespond /\ UNCHANGED <<search_vars, match_vars>>
    \/ SearchClose /\ UNCHANGED <<search_vars, match_vars>>
    \/ ReloadFetch /\ UNCHANGED <<search_vars, match_vars>>
    \/ ReloadRespond /\ UNCHANGED <<search_vars, match_vars>>
    \/ ReloadClose /\ UNCHANGED <<search_vars, match_vars>>

Spec == Init /\ [][Next]_vars

---------------------------------------------------------------------------
(* Claims about the server, checked under Spec.                            *)

\* C8: a reload whose retrieval fails (another status than 200, or an
\* exception) answers 500 and leaves the global dataset as it was.
C8_FailedReloadKeepsDataset ==
    [][(reload.pc = "fetched" /\ reload.how \in {"status", "exception"}
            /\ reload'.pc = "done")
         => (ofac_xml_data' = ofac_xml_data /\ reload'.status = 500)]_vars

C8_Witness ==
    /\ reload.pc = "done"
    /\ reload.how \in {"status", "exception"}
    /\ reload.status = 500
    /\ ofac_xml_data \in {DocA, DocB}

\* C9: a reload whose fetched bytes do not parse as XML, made while a
\* document is loaded, is reported as a failure and leaves the global
\* dataset as it was.
C9_MalformedReloadKeepsDataset ==
    [][(reload.pc = "fetched" /\ reload.new_data = Malformed
            /\ ofac_xml_data.kind = "xml" /\ reload'.pc = "done")
         => (ofac_xml_data' = ofac_xml_data /\ reload'.status = 500)]_vars

\* C10: the answer of a search that ran while reloads published new
\* datasets is the answer over one of the datasets the global held during
\* the search, never a mixture of the entries of two of them.
C10_ReloadAtomicity ==
    (search.pc = "done" /\ search.status # 400) =>
        \E d \in observed :
            LET outcome == search_sdn(d, search.name_query)
            IN  IF outcome.raised
                THEN search.status = 500
                ELSE /\ search.status = 200
                     /\ search.body = ResponseBody(search.route, outcome.rows)

C10_Witness ==
    /\ search.pc = "done"
    /\ search.status = 200
    /\ observed = {DocA, DocB}
    /\ search.xml_data = DocA
    /\ ofac_xml_data = DocB
    /\ search.body # <<>>
    /\ search_sdn(DocB, search.name_query).rows # search.results

\* C16: while the server accepts requests the global dataset is never None,
\* whatever reloads and searches have run (failed reloads included), and no
\* step of a search handler changes the global dataset.
C16_DatasetNeverNoneWhileServing ==
    /\ [](main_pc = "serving" => ofac_xml_data # NoData)
    /\ [][search' # search => ofac_xml_data' = ofac_xml_data]_vars

C16_Witness ==
    /\ main_pc = "serving"
    /\ nreq = MaxRequests
    /\ reload.pc = "done"
    /\ reload.new_data = NoData
    /\ search.pc = "done"
    /\ search.status = 200
    /\ ofac_xml_data # NoData

=============================================================================
